---- MODULE Spec2Model ----
(***************************************************************************)
(* Model of src/utils/parser_utils/src/parser_utils.c: the ingestion of an *)
(* update action document into an update identity and a collection of file *)
(* entities, with the heap the functions allocate from and release to.     *)
(*                                                                         *)
(* A C string pointer (const char* into a JSON document) is a sequence of  *)
(* at most one string: <<>> is NULL, <<s>> points at the text s.  An owned *)
(* pointer (malloc, calloc, a parsed document) is the index of a cell of   *)
(* `heap`, 0 being NULL.  An optional JSON member is a sequence of at most *)
(* one value, <<>> when the member is absent.                              *)
(***************************************************************************)
EXTENDS Integers, Sequences, FiniteSets, TLC

\* ------------------------------------------------------------------ bounds
\* The most entries a "files" object of an input document has.
MaxFiles == 2
\* The most entries a "hashes" object handed to ADUC_HashArray_AllocAndInit has.
MaxHashes == 2

\* ------------------------------------------------------------ JSON values
NULL == <<>>
CStr(s) == <<s>>
Absent == <<>>
Present(v) == <<v>>

JStr(s) == [t |-> "str", s |-> s, n |-> 0]
JNum(n) == [t |-> "num", s |-> "", n |-> n]

\* parson: the string of a JSON value, NULL when the value is not a string.
json_value_get_string(v) == IF v.t = "str" THEN CStr(v.s) ELSE NULL

\* parson: the number of a JSON value, 0 when the value is not a number.
json_value_get_number(v) == IF v.t = "num" THEN v.n ELSE 0

\* parson: the number of entries of an object, 0 for a NULL object.
json_object_get_count(obj) == IF obj = Absent THEN 0 ELSE Len(obj[1])

\* parson: the string member `name` of an object; NULL when the object is
\* NULL, the member is absent or it is not a string.  `member` is the
\* optional JSON value found under that name.
json_object_get_string(member) ==
    IF member = Absent THEN NULL ELSE json_value_get_string(member[1])

json_object_has_value(member) == member # Absent

json_object_get_number(member) ==
    IF member = Absent THEN 0 ELSE json_value_get_number(member[1])

\* ------------------------------------------------------------------- heap
\* A cell: what was allocated, how many times it was released, the text it
\* holds (a string copy) and the elements it holds (an ADUC_Hash array).
Cell(kind, str, elems) == [kind |-> kind, frees |-> 0, str |-> str, elems |-> elems]

ZeroHash == [type |-> 0, value |-> 0]

\* free(): NULL is ignored; releasing a released cell is counted (2 = twice).
Free(h, p) ==
    IF p = 0 THEN h
    ELSE [h EXCEPT ![p].frees = IF @ >= 2 THEN 2 ELSE @ + 1]

\* Sequencing: `F` applied to the value of `x`, computed once (a local
\* variable of the C code that later statements read).
Bind(x, F(_)) == CHOOSE y \in {F(v) : v \in {x}} : TRUE

\* An allocation of `cell` with `b` allocations left before one fails; a
\* failed allocation returns NULL and leaves b = -1.
Alloc(h, b, cell) ==
    IF b <= 0
    THEN [h |-> h, b |-> -1, p |-> 0]
    ELSE [h |-> Append(h, cell), b |-> b - 1, p |-> Len(h) + 1]

\* azure-c-shared-utility: a copy of `src` in new storage; rc # 0 on failure.
mallocAndStrcpy_s(h, b, src) ==
    IF b <= 0
    THEN [h |-> h, b |-> -1, p |-> 0, rc |-> 1]
    ELSE [h |-> Append(h, Cell("str", src, <<>>)), b |-> b - 1, p |-> Len(h) + 1,
          rc |-> 0]

\* ------------------------------------------------------------ hash_utils
\* Whether a C string is present and not empty.
NonEmpty(cs) == cs # NULL /\ cs[1] # ""

\* ADUC_Hash_Init: builds one ADUC_Hash from (hashValue, hashType).  It fails
\* when either is missing or empty and when a copy cannot be allocated; on
\* failure it has released what it allocated and leaves the element empty.
ADUC_Hash_Init(h, b, hashValue, hashType) ==
    IF ~NonEmpty(hashValue) \/ ~NonEmpty(hashType)
    THEN [h |-> h, b |-> b, ok |-> FALSE, hash |-> ZeroHash]
    ELSE Bind(mallocAndStrcpy_s(h, b, hashValue), LAMBDA v :
         IF v.rc # 0
         THEN [h |-> v.h, b |-> v.b, ok |-> FALSE, hash |-> ZeroHash]
         ELSE Bind(mallocAndStrcpy_s(v.h, v.b, hashType), LAMBDA t :
              IF t.rc # 0
              THEN [h |-> Free(t.h, v.p), b |-> t.b, ok |-> FALSE, hash |-> ZeroHash]
              ELSE [h |-> t.h, b |-> t.b, ok |-> TRUE,
                    hash |-> [type |-> t.p, value |-> v.p]]))

RECURSIVE FreeHashes(_, _, _)
\* The strings of the elements from `i` (1-based) to the last are released.
FreeHashes(h, elems, i) ==
    IF i > Len(elems) THEN h
    ELSE FreeHashes(Free(Free(h, elems[i].value), elems[i].type), elems, i + 1)

\* ADUC_Hash_FreeArray: releases the strings of the `hashCount` elements of
\* the array and the array itself; a NULL array is left alone.
ADUC_Hash_FreeArray(h, hashCount, hashArray) ==
    IF hashArray = 0 THEN h
    ELSE Free(FreeHashes(h, SubSeq(h[hashArray].elems, 1, hashCount), 1), hashArray)

\* ----------------------------------------------- ADUC_HashArray_AllocAndInit
RECURSIVE HashArray_Loop(_, _, _, _, _)
\* The for loop of ADUC_HashArray_AllocAndInit from hash_index (0-based) on:
\* each element is initialised from the entry at the same position; the
\* first entry ADUC_Hash_Init refuses ends the loop (goto done).
HashArray_Loop(h, b, hashObject, tempHashArray, hash_index) ==
    IF hash_index >= Len(hashObject)
    THEN [h |-> h, b |-> b, success |-> TRUE]
    ELSE Bind(ADUC_Hash_Init(h, b,
                             json_value_get_string(hashObject[hash_index + 1].value),
                             CStr(hashObject[hash_index + 1].name)), LAMBDA r :
         IF ~r.ok
         THEN [h |-> r.h, b |-> r.b, success |-> FALSE]
         ELSE HashArray_Loop(
                  [r.h EXCEPT ![tempHashArray].elems[hash_index + 1] = r.hash],
                  r.b, hashObject, tempHashArray, hash_index + 1))

\* HashArray_Done without the rollback: what was built is returned.
HashArray_Done_NoRollback(h, b, success, tempHashCount, tempHashArray) ==
    [h |-> h, b |-> b, arr |-> tempHashArray, hashCount |-> tempHashCount]

\* The done label of ADUC_HashArray_AllocAndInit: on failure the array and
\* what was built in it are released and NULL with a count of 0 is returned.
HashArray_Done(h, b, success, tempHashCount, tempHashArray) ==
    IF ~success
    THEN [h |-> ADUC_Hash_FreeArray(h, tempHashCount, tempHashArray), b |-> b,
          arr |-> 0, hashCount |-> 0]
    ELSE [h |-> h, b |-> b, arr |-> tempHashArray, hashCount |-> tempHashCount]

\* ADUC_HashArray_AllocAndInit(hashObject, &hashCount) with hashCount not
\* NULL: hashObject is an optional sequence of [name, value] entries.
ADUC_HashArray_AllocAndInit(h, b, hashObject) ==
    IF json_object_get_count(hashObject) = 0
    THEN HashArray_Done(h, b, FALSE, 0, 0)
    ELSE Bind(Alloc(h, b, Cell("hasharr", NULL,
                               [i \in 1..Len(hashObject[1]) |-> ZeroHash])), LAMBDA a :
         IF a.p = 0
         THEN HashArray_Done(a.h, a.b, FALSE, Len(hashObject[1]), 0)
         ELSE Bind(HashArray_Loop(a.h, a.b, hashObject[1], a.p, 0), LAMBDA l :
              HashArray_Done(l.h, l.b, l.success, Len(hashObject[1]), a.p)))

\* ------------------------------------------------------------ file entity
ZeroEntity ==
    [FileId |-> 0, TargetFilename |-> 0, DownloadUri |-> 0, Arguments |-> 0,
     Hash |-> 0, HashCount |-> 0, SizeInBytes |-> 0]

\* ADUC_FileEntity_Uninit without the release of the hash array.
ADUC_FileEntity_Uninit_KeepsHashes(h, entity) ==
    [h |-> Free(Free(Free(Free(h, entity.DownloadUri), entity.TargetFilename),
                     entity.FileId), entity.Arguments),
     entity |-> ZeroEntity]

\* ADUC_FileEntity_Uninit: the entity's strings and hash array are released
\* and the entity is zeroed.
ADUC_FileEntity_Uninit(h, entity) ==
    [h |-> ADUC_Hash_FreeArray(
               Free(Free(Free(Free(h, entity.DownloadUri), entity.TargetFilename),
                         entity.FileId), entity.Arguments),
               entity.HashCount, entity.Hash),
     entity |-> ZeroEntity]

RECURSIVE FileEntityArray_Loop(_, _, _, _)
\* The for loop of ADUC_FileEntityArray_Free from `i` (0-based) on.
FileEntityArray_Loop(h, arr, count, i) ==
    IF i >= count THEN [h |-> h, arr |-> arr]
    ELSE FileEntityArray_Loop(ADUC_FileEntity_Uninit(h, arr[i + 1]).h,
                              [arr EXCEPT ![i + 1] = ZeroEntity], count, i + 1)

\* ADUC_FileEntityArray_Free(fileCount, files): `arr` is what the array at
\* `files` holds.  Every element is uninitialised, then the array released.
ADUC_FileEntityArray_Free(h, count, filesPtr, arr) ==
    Bind(FileEntityArray_Loop(h, arr, count, 0), LAMBDA l :
         [h |-> Free(l.h, filesPtr), arr |-> l.arr])

\* The failure path of ADUC_FileEntity_Init (done with success false).
FileEntity_InitFailed(h, b, entity) ==
    [h |-> ADUC_FileEntity_Uninit(h, entity).h, b |-> b, ok |-> FALSE,
     entity |-> ZeroEntity]

\* An optional copy: a NULL source is not copied and is no failure.
CopyUnlessNull(h, b, src) ==
    IF src = NULL THEN [h |-> h, b |-> b, p |-> 0, rc |-> 0]
    ELSE mallocAndStrcpy_s(h, b, src)

\* ADUC_FileEntity_Init without the assignment of SizeInBytes.
ADUC_FileEntity_Init_DropsSize(h, b, fileEntity, fileId, targetFileName, downloadUri, arguments, hashArr, hashCnt, sizeInBytes) ==
    IF fileId = NULL \/ targetFileName = NULL \/ hashArr = 0
    THEN [h |-> h, b |-> b, ok |-> FALSE, entity |-> fileEntity]
    ELSE
    Bind(mallocAndStrcpy_s(h, b, fileId), LAMBDA c1 :
    IF c1.rc # 0 THEN FileEntity_InitFailed(c1.h, c1.b, ZeroEntity)
    ELSE
    Bind(mallocAndStrcpy_s(c1.h, c1.b, targetFileName), LAMBDA c2 :
    IF c2.rc # 0
    THEN FileEntity_InitFailed(c2.h, c2.b, [ZeroEntity EXCEPT !.FileId = c1.p])
    ELSE
    Bind(CopyUnlessNull(c2.h, c2.b, downloadUri), LAMBDA c3 :
    IF c3.rc # 0
    THEN FileEntity_InitFailed(c3.h, c3.b,
             [ZeroEntity EXCEPT !.FileId = c1.p, !.TargetFilename = c2.p])
    ELSE
    Bind(CopyUnlessNull(c3.h, c3.b, arguments), LAMBDA c4 :
    IF c4.rc # 0
    THEN FileEntity_InitFailed(c4.h, c4.b,
             [ZeroEntity EXCEPT !.FileId = c1.p, !.TargetFilename = c2.p,
                                !.DownloadUri = c3.p])
    ELSE [h |-> c4.h, b |-> c4.b, ok |-> TRUE,
          entity |-> [FileId |-> c1.p, TargetFilename |-> c2.p,
                      DownloadUri |-> c3.p, Arguments |-> c4.p,
                      Hash |-> hashArr, HashCount |-> hashCnt,
                      SizeInBytes |-> 0]]))))

\* ADUC_FileEntity_Init attaching the hash array before the copies, so that
\* the uninitialisation after a failed copy releases it.
ADUC_FileEntity_Init_AttachesFirst(h, b, fileEntity, fileId, targetFileName, downloadUri, arguments, hashArr, hashCnt, sizeInBytes) ==
    IF fileId = NULL \/ targetFileName = NULL \/ hashArr = 0
    THEN [h |-> h, b |-> b, ok |-> FALSE, entity |-> fileEntity]
    ELSE
    Bind(mallocAndStrcpy_s(h, b, fileId), LAMBDA c1 :
    IF c1.rc # 0
    THEN FileEntity_InitFailed(c1.h, c1.b,
             [ZeroEntity EXCEPT !.Hash = hashArr, !.HashCount = hashCnt])
    ELSE
    Bind(mallocAndStrcpy_s(c1.h, c1.b, targetFileName), LAMBDA c2 :
    IF c2.rc # 0
    THEN FileEntity_InitFailed(c2.h, c2.b,
             [ZeroEntity EXCEPT !.FileId = c1.p,
                                !.Hash = hashArr, !.HashCount = hashCnt])
    ELSE
    Bind(CopyUnlessNull(c2.h, c2.b, downloadUri), LAMBDA c3 :
    IF c3.rc # 0
    THEN FileEntity_InitFailed(c3.h, c3.b,
             [ZeroEntity EXCEPT !.FileId = c1.p, !.TargetFilename = c2.p,
                                !.Hash = hashArr, !.HashCount = hashCnt])
    ELSE
    Bind(CopyUnlessNull(c3.h, c3.b, arguments), LAMBDA c4 :
    IF c4.rc # 0
    THEN FileEntity_InitFailed(c4.h, c4.b,
             [ZeroEntity EXCEPT !.FileId = c1.p, !.TargetFilename = c2.p,
                                !.DownloadUri = c3.p,
                                !.Hash = hashArr, !.HashCount = hashCnt])
    ELSE [h |-> c4.h, b |-> c4.b, ok |-> TRUE,
          entity |-> [FileId |-> c1.p, TargetFilename |-> c2.p,
                      DownloadUri |-> c3.p, Arguments |-> c4.p,
                      Hash |-> hashArr, HashCount |-> hashCnt,
                      SizeInBytes |-> sizeInBytes]]))))

\* ADUC_FileEntity_Init: copies the strings into the entity and attaches the
\* hash array.  A NULL fileId, targetFileName or hashArray returns false
\* before the entity is touched; a failed copy uninitialises the entity.
ADUC_FileEntity_Init(h, b, fileEntity, fileId, targetFileName, downloadUri, arguments, hashArr, hashCnt, sizeInBytes) ==
    IF fileId = NULL \/ targetFileName = NULL \/ hashArr = 0
    THEN [h |-> h, b |-> b, ok |-> FALSE, entity |-> fileEntity]
    ELSE
    Bind(mallocAndStrcpy_s(h, b, fileId), LAMBDA c1 :
    IF c1.rc # 0 THEN FileEntity_InitFailed(c1.h, c1.b, ZeroEntity)
    ELSE
    Bind(mallocAndStrcpy_s(c1.h, c1.b, targetFileName), LAMBDA c2 :
    IF c2.rc # 0
    THEN FileEntity_InitFailed(c2.h, c2.b, [ZeroEntity EXCEPT !.FileId = c1.p])
    ELSE
    Bind(CopyUnlessNull(c2.h, c2.b, downloadUri), LAMBDA c3 :
    IF c3.rc # 0
    THEN FileEntity_InitFailed(c3.h, c3.b,
             [ZeroEntity EXCEPT !.FileId = c1.p, !.TargetFilename = c2.p])
    ELSE
    Bind(CopyUnlessNull(c3.h, c3.b, arguments), LAMBDA c4 :
    IF c4.rc # 0
    THEN FileEntity_InitFailed(c4.h, c4.b,
             [ZeroEntity EXCEPT !.FileId = c1.p, !.TargetFilename = c2.p,
                                !.DownloadUri = c3.p])
    ELSE [h |-> c4.h, b |-> c4.b, ok |-> TRUE,
          entity |-> [FileId |-> c1.p, TargetFilename |-> c2.p,
                      DownloadUri |-> c3.p, Arguments |-> c4.p,
                      Hash |-> hashArr, HashCount |-> hashCnt,
                      SizeInBytes |-> sizeInBytes]]))))

\* ------------------------------------------------------- input documents
\* The i-th key of a "files" object and the i-th URL of a "fileUrls" object.
FileIdAt(i) == "000" \o ToString(i)
UrlAt(i) == "http://host/" \o ToString(i)

GoodHash1 == [name |-> "sha256", value |-> JStr("AAAA")]
GoodHash2 == [name |-> "sha1", value |-> JStr("BBBB")]
BadHash == [name |-> "md5", value |-> JNum(7)]

\* A well-formed file object: fileName and one hash, nothing optional.
BaseFile ==
    [fileName |-> Present(JStr("a.deb")), hashes |-> Present(<<GoodHash1>>),
     sizeInBytes |-> Absent, arguments |-> Absent]

\* The file objects of the input documents: BaseFile, and BaseFile with one
\* member changed.
FileValues ==
    {BaseFile}
    \cup {[BaseFile EXCEPT !.fileName = n] : n \in {Absent, Present(JStr(""))}}
    \cup {[BaseFile EXCEPT !.hashes = x] :
             x \in {Absent, Present(<<>>), Present(<<GoodHash1, GoodHash2>>),
                    Present(<<GoodHash1, BadHash>>)}}
    \cup {[BaseFile EXCEPT !.sizeInBytes = z] :
             z \in {Present(JNum(1024)), Present(JStr("1024"))}}
    \cup {[BaseFile EXCEPT !.arguments = Present(JStr("--force"))]}

\* The entries a "files" object can have at position i: the key is the
\* position's id, or the empty key on a well-formed file object.
FileEntries(i) ==
    {[name |-> FileIdAt(i), value |-> v] : v \in FileValues}
    \cup {[name |-> "", value |-> BaseFile]}

RECURSIVE FileSeqsOfLen(_)
FileSeqsOfLen(n) ==
    IF n = 0 THEN {<<>>}
    ELSE {Append(s, e) : s \in FileSeqsOfLen(n - 1), e \in FileEntries(n)}

\* A parsed JSON object has no two members of the same name.
DistinctNames(s) == \A i, j \in 1..Len(s) : s[i].name = s[j].name => i = j

FilesObjs ==
    {Absent}
    \cup {Present(s) : s \in {q \in UNION {FileSeqsOfLen(n) : n \in 0..MaxFiles} :
                                 DistinctNames(q)}}

\* "fileUrls" may hold more entries than "files".
MaxUrls == MaxFiles + 1

\* A "fileUrls" object of m entries: keyed by the file ids in order, keyed by
\* the file ids in reverse order (no key is at its file's position unless it
\* is the middle one), or holding numbers where the URLs should be.
UrlSeq(m, scheme) ==
    [i \in 1..m |->
        [name |-> IF scheme = "reversed" THEN FileIdAt(m + 1 - i) ELSE FileIdAt(i),
         value |-> IF scheme = "numeric" THEN JNum(i) ELSE JStr(UrlAt(i))]]

UrlObjs ==
    {Absent}
    \cup {Present(UrlSeq(m, scheme)) :
             m \in 0..MaxUrls, scheme \in {"byId", "reversed", "numeric"}}

IdStrings == {Absent, Present(JStr("")), Present(JStr("Azure")), Present(JStr("1.2.0.0"))}

IdObjs ==
    {Absent}
    \cup {Present(i) : i \in [provider : IdStrings, name : IdStrings, version : IdStrings]}

BaseId ==
    Present([provider |-> Present(JStr("Azure")), name |-> Present(JStr("IOT-Firmware")),
             version |-> Present(JStr("1.2.0.0"))])

\* The "updateManifest" member: a JSON string (t = "str") whose text parses
\* (wellFormed) to the JSON value `root`, or a value that is no string.
Manifest(t, wellFormed, isObject, updateId, files) ==
    Present([t |-> t, wellFormed |-> wellFormed,
             root |-> [isObject |-> isObject, updateId |-> updateId, files |-> files]])

BaseFiles == Present(<<[name |-> FileIdAt(1), value |-> BaseFile]>>)

Docs ==
    {[updateManifest |-> Manifest("str", TRUE, TRUE, BaseId, f), fileUrls |-> u] :
        f \in FilesObjs, u \in UrlObjs}
    \cup {[updateManifest |-> Manifest("str", TRUE, TRUE, i, BaseFiles),
           fileUrls |-> Present(UrlSeq(1, "byId"))] : i \in IdObjs}
    \cup {[updateManifest |-> m, fileUrls |-> Present(UrlSeq(1, "byId"))] :
             m \in {Absent, Manifest("num", FALSE, FALSE, BaseId, BaseFiles),
                    Manifest("str", FALSE, FALSE, BaseId, BaseFiles),
                    Manifest("str", TRUE, FALSE, BaseId, BaseFiles)}}

\* The hash objects ADUC_HashArray_AllocAndInit is called on directly.
HashNames == {"", "sha256", "sha1", "md5"}
HashValues == {JStr(""), JStr("AAAA"), JStr("BBBB"), JNum(7)}
HashEntries == [name : HashNames, value : HashValues]

RECURSIVE HashSeqsOfLen(_)
HashSeqsOfLen(n) ==
    IF n = 0 THEN {<<>>}
    ELSE {Append(s, e) : s \in HashSeqsOfLen(n - 1), e \in HashEntries}

HashObjs ==
    {Absent}
    \cup {Present(s) : s \in {q \in UNION {HashSeqsOfLen(n) : n \in 0..MaxHashes} :
                                 DistinctNames(q)}}

\* ------------------------------------------------------------------ state
VARIABLES
    doc,                  \* updateActionJson, the caller's parsed document
    heap,                 \* every allocation made so far
    pc,                   \* where the caller, or the function it called, is
    updateManifestValue,  \* the re-parsed manifest document of the call
    files,                \* *files of ADUC_Json_GetFiles
    fileCount,            \* *fileCount of ADUC_Json_GetFiles
    fileArr,              \* the elements of the array at *files
    index,                \* the loop index of ADUC_Json_GetFiles
    succeeded,            \* the flag `succeeded` / `success` of the call
    tempUpdateID,         \* tempUpdateID of ADUC_Json_GetUpdateId
    updateId,             \* *updateId of ADUC_Json_GetUpdateId
    idObj,                \* the ADUC_UpdateId structure allocated in the call
    hashObj,              \* the argument of a direct ADUC_HashArray_AllocAndInit
    hashArray,            \* the array ADUC_HashArray_AllocAndInit returned
    hashCount,            \* *hashCount of ADUC_HashArray_AllocAndInit
    result,               \* what the call returned
    staleRead,            \* the manifest document was read after its release
    allocFailed,          \* an allocation of the call failed
    initReturn            \* the last return of ADUC_FileEntity_Init in the loop

vars ==
    <<doc, heap, pc, updateManifestValue, files, fileCount, fileArr, index,
      succeeded, tempUpdateID, updateId, idObj, hashObj, hashArray, hashCount,
      result, staleRead, allocFailed, initReturn>>

\* No ADUC_FileEntity_Init has returned in the pass.
NoInitReturn ==
    [called |-> FALSE, ok |-> FALSE, tempHash |-> 0, tempHashCount |-> 0,
     h |-> <<>>, entity |-> ZeroEntity]

ZeroId == [Provider |-> 0, Name |-> 0, Version |-> 0]

\* ------------------------------------------------------ parson_json_utils
\* ADUC_JSON_GetStringField: an owned copy of a string member of the
\* document; false when the member is absent, is no string, or the copy
\* cannot be allocated.
ADUC_JSON_GetStringField(h, b, member) ==
    IF member = Absent \/ member[1].t # "str"
    THEN [h |-> h, b |-> b, ok |-> FALSE, p |-> 0]
    ELSE Bind(Alloc(h, b, Cell("field", NULL, <<>>)), LAMBDA a :
         [h |-> a.h, b |-> a.b, ok |-> a.p # 0, p |-> a.p])

\* ADUC_JSON_GetStringFieldPtr: the string member of a JSON object, pointing
\* into the document; NULL when absent or no string.
ADUC_JSON_GetStringFieldPtr(member) == json_object_get_string(member)

\* parson json_parse_string: a new document, NULL when the text is not JSON
\* or the document cannot be allocated.
json_parse_string(h, b, text) ==
    IF ~text.wellFormed
    THEN [h |-> h, b |-> b, p |-> 0]
    ELSE Alloc(h, b, Cell("doc", NULL, <<>>))

\* parson json_value_free.
json_value_free(h, value) == Free(h, value)

\* Whether the document at `value` has been released.
Released(h, value) == value # 0 /\ h[value].frees > 0

\* ---------------------------------------- ADUC_JSON_GetUpdateManifestRoot
\* The copy of the updateManifest string is parsed; the copy is not released.
ADUC_JSON_GetUpdateManifestRoot(h, b, updateActionJson) ==
    Bind(ADUC_JSON_GetStringField(h, b, updateActionJson.updateManifest), LAMBDA f :
         IF ~f.ok
         THEN [h |-> f.h, b |-> f.b, p |-> 0]
         ELSE json_parse_string(f.h, f.b, updateActionJson.updateManifest[1]))

\* The JSON value the manifest document holds.
ManifestRoot(updateActionJson) == updateActionJson.updateManifest[1].root

\* json_object_get_object(json_value_get_object(root), "files").
FilesObject(updateActionJson) ==
    IF ManifestRoot(updateActionJson).isObject
    THEN ManifestRoot(updateActionJson).files ELSE Absent

\* json_object_get_value(json_value_get_object(root), "updateId").
UpdateIdValue(updateActionJson) ==
    IF ManifestRoot(updateActionJson).isObject
    THEN ManifestRoot(updateActionJson).updateId ELSE Absent

\* ------------------------------------------------------------ adu update id
\* ADUC_UpdateId_AllocAndInit: an owned identity holding copies of the three
\* strings; NULL when one is missing or empty or an allocation fails, with
\* everything it allocated released.
ADUC_UpdateId_AllocAndInit(h, b, provider, name, version) ==
    IF ~NonEmpty(provider) \/ ~NonEmpty(name) \/ ~NonEmpty(version)
    THEN [h |-> h, b |-> b, p |-> 0, id |-> ZeroId]
    ELSE
    Bind(Alloc(h, b, Cell("updateid", NULL, <<>>)), LAMBDA a :
    IF a.p = 0 THEN [h |-> a.h, b |-> a.b, p |-> 0, id |-> ZeroId]
    ELSE
    Bind(mallocAndStrcpy_s(a.h, a.b, provider), LAMBDA c1 :
    IF c1.rc # 0
    THEN [h |-> Free(c1.h, a.p), b |-> c1.b, p |-> 0, id |-> ZeroId]
    ELSE
    Bind(mallocAndStrcpy_s(c1.h, c1.b, name), LAMBDA c2 :
    IF c2.rc # 0
    THEN [h |-> Free(Free(c2.h, c1.p), a.p), b |-> c2.b, p |-> 0, id |-> ZeroId]
    ELSE
    Bind(mallocAndStrcpy_s(c2.h, c2.b, version), LAMBDA c3 :
    IF c3.rc # 0
    THEN [h |-> Free(Free(Free(c3.h, c2.p), c1.p), a.p), b |-> c3.b, p |-> 0,
          id |-> ZeroId]
    ELSE [h |-> c3.h, b |-> c3.b, p |-> a.p,
          id |-> [Provider |-> c1.p, Name |-> c2.p, Version |-> c3.p]]))))

\* ADUC_UpdateId_UninitAndFree: releases the identity's strings and the
\* identity; NULL is left alone.
ADUC_UpdateId_UninitAndFree(h, p, id) ==
    IF p = 0 THEN h
    ELSE Free(Free(Free(Free(h, id.Provider), id.Name), id.Version), p)

\* ----------------------------------------------------- ADUC_Json_GetFiles
\* A goto done of ADUC_Json_GetFiles before the array exists.
GetFiles_GotoDone(h, b, root) ==
    [h |-> h, b |-> b, root |-> root, files |-> 0, fileCount |-> 0, arr |-> <<>>,
     loop |-> FALSE]

\* GetFiles_Prologue allocating the array before "fileUrls" is counted.
GetFiles_Prologue_AllocatesFirst(h, b, updateActionJson) ==
    Bind(ADUC_JSON_GetUpdateManifestRoot(h, b, updateActionJson), LAMBDA r :
    IF r.p = 0 THEN GetFiles_GotoDone(r.h, r.b, 0)
    ELSE IF FilesObject(updateActionJson) = Absent THEN GetFiles_GotoDone(r.h, r.b, r.p)
    ELSE IF json_object_get_count(FilesObject(updateActionJson)) = 0
    THEN GetFiles_GotoDone(r.h, r.b, r.p)
    ELSE
    Bind(Alloc(r.h, r.b, Cell("filearr", NULL, <<>>)), LAMBDA a :
    IF a.p = 0 THEN GetFiles_GotoDone(a.h, a.b, r.p)
    ELSE IF json_object_get_count(updateActionJson.fileUrls)
              < json_object_get_count(FilesObject(updateActionJson))
    THEN [h |-> a.h, b |-> a.b, root |-> r.p, files |-> a.p,
          fileCount |-> json_object_get_count(FilesObject(updateActionJson)),
          arr |-> [i \in 1..json_object_get_count(FilesObject(updateActionJson))
                     |-> ZeroEntity],
          loop |-> FALSE]
    ELSE [h |-> a.h, b |-> a.b, root |-> r.p, files |-> a.p,
          fileCount |-> json_object_get_count(FilesObject(updateActionJson)),
          arr |-> [i \in 1..json_object_get_count(FilesObject(updateActionJson))
                     |-> ZeroEntity],
          loop |-> TRUE]))

\* ADUC_Json_GetFiles up to the loop: the manifest document is acquired,
\* "files" and "fileUrls" are counted and compared, the array is allocated.
\* `loop` tells whether the loop is entered (otherwise: goto done).
GetFiles_Prologue(h, b, updateActionJson) ==
    Bind(ADUC_JSON_GetUpdateManifestRoot(h, b, updateActionJson), LAMBDA r :
    IF r.p = 0 THEN GetFiles_GotoDone(r.h, r.b, 0)
    ELSE IF FilesObject(updateActionJson) = Absent THEN GetFiles_GotoDone(r.h, r.b, r.p)
    ELSE IF json_object_get_count(FilesObject(updateActionJson)) = 0
    THEN GetFiles_GotoDone(r.h, r.b, r.p)
    ELSE IF json_object_get_count(updateActionJson.fileUrls) = 0
    THEN GetFiles_GotoDone(r.h, r.b, r.p)
    ELSE IF json_object_get_count(updateActionJson.fileUrls)
              < json_object_get_count(FilesObject(updateActionJson))
    THEN GetFiles_GotoDone(r.h, r.b, r.p)
    ELSE
    Bind(Alloc(r.h, r.b, Cell("filearr", NULL, <<>>)), LAMBDA a :
    IF a.p = 0 THEN GetFiles_GotoDone(a.h, a.b, r.p)
    ELSE [h |-> a.h, b |-> a.b, root |-> r.p, files |-> a.p,
          fileCount |-> json_object_get_count(FilesObject(updateActionJson)),
          arr |-> [i \in 1..json_object_get_count(FilesObject(updateActionJson))
                     |-> ZeroEntity],
          loop |-> TRUE]))

\* UrlAtIndex reading the entry after the one at the index.
UrlAtIndex_OffByOne(fileUrlsObject, i) ==
    IF i + 1 < json_object_get_count(fileUrlsObject)
    THEN json_value_get_string(fileUrlsObject[1][i + 2].value)
    ELSE NULL

\* json_value_get_string(json_object_get_value_at(fileUrlsObject, index)):
\* NULL when there is no entry at that position.
UrlAtIndex(fileUrlsObject, i) ==
    IF i < json_object_get_count(fileUrlsObject)
    THEN json_value_get_string(fileUrlsObject[1][i + 1].value)
    ELSE NULL

\* ADUC_FileEntity_Init has returned `fi` for the hash array `tempHash`: the
\* result, the entity and the heap as they are at that return, before the
\* caller acts on the result.
InitReturned(fi, tempHash) ==
    [called |-> TRUE, ok |-> fi.ok, tempHash |-> tempHash.arr,
     tempHashCount |-> tempHash.hashCount, h |-> fi.h, entity |-> fi.entity]

\* One pass of the loop of ADUC_Json_GetFiles, for the file at `i` (0-based):
\* its hashes are parsed, its URL is the one at the same position of
\* "fileUrls", and the entity at `i` is initialised.  ~ok is goto done.
GetFiles_LoopBody(h, b, updateActionJson, arr, i) ==
    LET filesObject == FilesObject(updateActionJson)[1]
        fileObj == filesObject[i + 1].value
        uri == UrlAtIndex(updateActionJson.fileUrls, i)
        fileId == CStr(filesObject[i + 1].name)
        name == json_object_get_string(fileObj.fileName)
        arguments == json_object_get_string(fileObj.arguments)
        sizeInBytes == IF json_object_has_value(fileObj.sizeInBytes)
                       THEN json_object_get_number(fileObj.sizeInBytes)
                       ELSE 0
    IN  IF fileObj.hashes = Absent
        THEN [h |-> h, b |-> b, ok |-> FALSE, arr |-> arr, init |-> NoInitReturn]
        ELSE
        Bind(ADUC_HashArray_AllocAndInit(h, b, fileObj.hashes), LAMBDA tempHash :
        IF tempHash.arr = 0
        THEN [h |-> tempHash.h, b |-> tempHash.b, ok |-> FALSE, arr |-> arr,
              init |-> NoInitReturn]
        ELSE
        Bind(ADUC_FileEntity_Init(tempHash.h, tempHash.b, arr[i + 1], fileId, name,
                                  uri, arguments, tempHash.arr, tempHash.hashCount,
                                  sizeInBytes), LAMBDA fi :
        IF ~fi.ok
        THEN [h |-> ADUC_Hash_FreeArray(fi.h, tempHash.hashCount, tempHash.arr),
              b |-> fi.b, ok |-> FALSE, arr |-> [arr EXCEPT ![i + 1] = fi.entity],
              init |-> InitReturned(fi, tempHash)]
        ELSE [h |-> fi.h, b |-> fi.b, ok |-> TRUE,
              arr |-> [arr EXCEPT ![i + 1] = fi.entity],
              init |-> InitReturned(fi, tempHash)]))

\* GetFiles_Epilogue without the reset of the outputs after a failure.
GetFiles_Epilogue_KeepsOutputs(h, ok, count, filesPtr, arr, root) ==
    IF ~ok
    THEN [h |-> json_value_free(ADUC_FileEntityArray_Free(h, count, filesPtr, arr).h, root),
          files |-> filesPtr, fileCount |-> count, arr |-> arr]
    ELSE [h |-> json_value_free(h, root), files |-> filesPtr, fileCount |-> count,
          arr |-> arr]

\* GetFiles_Epilogue returning from a failure without json_value_free.
GetFiles_Epilogue_LeaksManifest(h, ok, count, filesPtr, arr, root) ==
    IF ~ok
    THEN [h |-> ADUC_FileEntityArray_Free(h, count, filesPtr, arr).h,
          files |-> 0, fileCount |-> 0, arr |-> <<>>]
    ELSE [h |-> json_value_free(h, root), files |-> filesPtr, fileCount |-> count,
          arr |-> arr]

\* The done label of ADUC_Json_GetFiles: a failed call releases the array
\* and what it holds and clears the outputs; the manifest document is
\* released either way.
GetFiles_Epilogue(h, ok, count, filesPtr, arr, root) ==
    IF ~ok
    THEN [h |-> json_value_free(ADUC_FileEntityArray_Free(h, count, filesPtr, arr).h, root),
          files |-> 0, fileCount |-> 0, arr |-> <<>>]
    ELSE [h |-> json_value_free(h, root), files |-> filesPtr, fileCount |-> count,
          arr |-> arr]

\* The allocations that may succeed before one fails; the largest lets
\* every allocation of a step succeed.
Budgets(most) == 0..most

\* The allocations one pass of the loop makes at most: the hash array, two
\* strings per hash, four strings of the entity.
AllocsOfPass(updateActionJson, i) ==
    5 + 2 * json_object_get_count(FilesObject(updateActionJson)[1][i + 1].value.hashes)

\* ADUC_Json_GetFiles is called with fileCount or files NULL.
GetFiles_NullArgs ==
    /\ pc = "idle"
    /\ pc' = "gf_badargs"
    /\ result' = FALSE
    /\ UNCHANGED <<initReturn, doc, heap, updateManifestValue, files, fileCount, fileArr, index,
                   succeeded, tempUpdateID, updateId, idObj, hashObj, hashArray,
                   hashCount, staleRead,
                   allocFailed>>

GetFiles_Enter ==
    /\ pc = "idle"
    /\ \E b \in Budgets(3) :
       \E p \in {GetFiles_Prologue(heap, b, doc)} :
             /\ allocFailed' = (allocFailed \/ p.b < 0)
             /\ heap' = p.h
             /\ updateManifestValue' = p.root
             /\ files' = p.files
             /\ fileCount' = p.fileCount
             /\ fileArr' = p.arr
             /\ pc' = IF p.loop THEN "gf_loop" ELSE "gf_done"
    /\ index' = 0
    /\ succeeded' = FALSE
    /\ UNCHANGED <<initReturn, doc, tempUpdateID, updateId, idObj, hashObj, hashArray, hashCount,
                   result, staleRead>>

GetFiles_Iterate ==
    /\ pc = "gf_loop"
    /\ index < fileCount
    /\ \E b \in Budgets(AllocsOfPass(doc, index)) :
       \E r \in {GetFiles_LoopBody(heap, b, doc, fileArr, index)} :
             /\ allocFailed' = (allocFailed \/ r.b < 0)
             /\ heap' = r.h
             /\ fileArr' = r.arr
             /\ initReturn' = r.init
             /\ index' = IF r.ok THEN index + 1 ELSE index
             /\ succeeded' = (r.ok /\ index + 1 = fileCount)
             /\ pc' = IF r.ok /\ index + 1 < fileCount THEN "gf_loop" ELSE "gf_done"
    /\ staleRead' = (staleRead \/ Released(heap, updateManifestValue))
    /\ UNCHANGED <<doc, updateManifestValue, files, fileCount, tempUpdateID, updateId,
                   idObj, hashObj, hashArray, hashCount, result>>

GetFiles_Done ==
    /\ pc = "gf_done"
    /\ \E e \in {GetFiles_Epilogue(heap, succeeded, fileCount, files, fileArr,
                                     updateManifestValue)} :
           /\ heap' = e.h
           /\ files' = e.files
           /\ fileCount' = e.fileCount
           /\ fileArr' = e.arr
    /\ result' = succeeded
    /\ pc' = "gf_ret"
    /\ UNCHANGED <<initReturn, doc, updateManifestValue, index, succeeded, tempUpdateID, updateId,
                   idObj, hashObj, hashArray, hashCount, staleRead,
                   allocFailed>>

\* The caller releases the collection a successful call returned.
Caller_FreeFiles ==
    /\ pc = "gf_ret"
    /\ result
    /\ \E f \in {ADUC_FileEntityArray_Free(heap, fileCount, files, fileArr)} :
           /\ heap' = f.h
           /\ fileArr' = f.arr
    /\ pc' = "end"
    /\ UNCHANGED <<initReturn, doc, updateManifestValue, files, fileCount, index, succeeded,
                   tempUpdateID, updateId, idObj, hashObj, hashArray, hashCount,
                   result, staleRead,
                   allocFailed>>

\* -------------------------------------------------- ADUC_Json_GetUpdateId
\* A goto done of ADUC_Json_GetUpdateId before the identity exists.
GetUpdateId_GotoDone(h, b, root) ==
    [h |-> h, b |-> b, root |-> root, temp |-> 0, id |-> ZeroId, success |-> FALSE]

\* GetUpdateId_Body handing name and version over in the wrong order.
GetUpdateId_Body_Swapped(h, b, updateActionJson) ==
    Bind(ADUC_JSON_GetUpdateManifestRoot(h, b, updateActionJson), LAMBDA r :
    IF r.p = 0 THEN GetUpdateId_GotoDone(r.h, r.b, 0)
    ELSE IF ~ManifestRoot(updateActionJson).isObject
    THEN GetUpdateId_GotoDone(r.h, r.b, r.p)
    ELSE IF UpdateIdValue(updateActionJson) = Absent
    THEN GetUpdateId_GotoDone(r.h, r.b, r.p)
    ELSE
    LET updateIdValue == UpdateIdValue(updateActionJson)[1]
        provider == ADUC_JSON_GetStringFieldPtr(updateIdValue.provider)
        name == ADUC_JSON_GetStringFieldPtr(updateIdValue.name)
        version == ADUC_JSON_GetStringFieldPtr(updateIdValue.version)
    IN  IF provider = NULL \/ name = NULL \/ version = NULL
        THEN GetUpdateId_GotoDone(r.h, r.b, r.p)
        ELSE
        Bind(ADUC_UpdateId_AllocAndInit(r.h, r.b, provider, version, name), LAMBDA a :
        IF a.p = 0 THEN GetUpdateId_GotoDone(a.h, a.b, r.p)
        ELSE [h |-> a.h, b |-> a.b, root |-> r.p, temp |-> a.p, id |-> a.id,
              success |-> TRUE]))

\* ADUC_Json_GetUpdateId up to the done label: the manifest document is
\* acquired, the three strings of "updateId" are read and the identity built.
GetUpdateId_Body(h, b, updateActionJson) ==
    Bind(ADUC_JSON_GetUpdateManifestRoot(h, b, updateActionJson), LAMBDA r :
    IF r.p = 0 THEN GetUpdateId_GotoDone(r.h, r.b, 0)
    ELSE IF ~ManifestRoot(updateActionJson).isObject
    THEN GetUpdateId_GotoDone(r.h, r.b, r.p)
    ELSE IF UpdateIdValue(updateActionJson) = Absent
    THEN GetUpdateId_GotoDone(r.h, r.b, r.p)
    ELSE
    LET updateIdValue == UpdateIdValue(updateActionJson)[1]
        provider == ADUC_JSON_GetStringFieldPtr(updateIdValue.provider)
        name == ADUC_JSON_GetStringFieldPtr(updateIdValue.name)
        version == ADUC_JSON_GetStringFieldPtr(updateIdValue.version)
    IN  IF provider = NULL \/ name = NULL \/ version = NULL
        THEN GetUpdateId_GotoDone(r.h, r.b, r.p)
        ELSE
        Bind(ADUC_UpdateId_AllocAndInit(r.h, r.b, provider, name, version), LAMBDA a :
        IF a.p = 0 THEN GetUpdateId_GotoDone(a.h, a.b, r.p)
        ELSE [h |-> a.h, b |-> a.b, root |-> r.p, temp |-> a.p, id |-> a.id,
              success |-> TRUE]))

\* The done label of ADUC_Json_GetUpdateId: a failed call releases the
\* identity; the manifest document is released; *updateId is assigned.
GetUpdateId_Epilogue(h, ok, temp, id, root) ==
    IF ~ok
    THEN [h |-> json_value_free(ADUC_UpdateId_UninitAndFree(h, temp, id), root),
          updateId |-> 0, id |-> ZeroId]
    ELSE [h |-> json_value_free(h, root), updateId |-> temp, id |-> id]

GetUpdateId_Enter ==
    /\ pc = "idle"
    /\ \E b \in Budgets(6) :
       \E r \in {GetUpdateId_Body(heap, b, doc)} :
             /\ allocFailed' = (allocFailed \/ r.b < 0)
             /\ heap' = r.h
             /\ updateManifestValue' = r.root
             /\ tempUpdateID' = r.temp
             /\ idObj' = r.id
             /\ succeeded' = r.success
    /\ updateId' = 0
    /\ pc' = "id_done"
    /\ UNCHANGED <<initReturn, doc, files, fileCount, fileArr, index, hashObj, hashArray,
                   hashCount, result, staleRead>>

GetUpdateId_Done ==
    /\ pc = "id_done"
    /\ \E e \in {GetUpdateId_Epilogue(heap, succeeded, tempUpdateID, idObj,
                                        updateManifestValue)} :
           /\ heap' = e.h
           /\ updateId' = e.updateId
           /\ idObj' = e.id
    /\ result' = succeeded
    /\ pc' = "id_ret"
    /\ UNCHANGED <<initReturn, doc, updateManifestValue, files, fileCount, fileArr, index,
                   succeeded, tempUpdateID, hashObj, hashArray, hashCount, staleRead,
                   allocFailed>>

\* The caller releases the identity a successful call returned.
Caller_FreeUpdateId ==
    /\ pc = "id_ret"
    /\ result
    /\ heap' = ADUC_UpdateId_UninitAndFree(heap, updateId, idObj)
    /\ pc' = "end"
    /\ UNCHANGED <<initReturn, doc, updateManifestValue, files, fileCount, fileArr, index,
                   succeeded, tempUpdateID, updateId, idObj, hashObj, hashArray,
                   hashCount, result, staleRead,
                   allocFailed>>

\* ------------------------------------ ADUC_JSON_GetUpdateManifestRoot, direct
GetUpdateManifestRoot_Call ==
    /\ pc = "idle"
    /\ \E b \in Budgets(2) :
       \E r \in {ADUC_JSON_GetUpdateManifestRoot(heap, b, doc)} :
             /\ allocFailed' = (allocFailed \/ r.b < 0)
             /\ heap' = r.h
             /\ updateManifestValue' = r.p
             /\ result' = (r.p # 0)
    /\ pc' = "root_ret"
    /\ UNCHANGED <<initReturn, doc, files, fileCount, fileArr, index, succeeded, tempUpdateID,
                   updateId, idObj, hashObj, hashArray, hashCount, staleRead>>

\* The caller releases the document it was given (json_value_free).
Caller_FreeRoot ==
    /\ pc = "root_ret"
    /\ result
    /\ heap' = json_value_free(heap, updateManifestValue)
    /\ pc' = "end"
    /\ UNCHANGED <<initReturn, doc, updateManifestValue, files, fileCount, fileArr, index,
                   succeeded, tempUpdateID, updateId, idObj, hashObj, hashArray,
                   hashCount, result, staleRead,
                   allocFailed>>

\* ---------------------------------------- ADUC_HashArray_AllocAndInit, direct
HashArray_Call ==
    /\ pc = "idle"
    /\ \E b \in Budgets(1 + 2 * json_object_get_count(hashObj)) :
       \E r \in {ADUC_HashArray_AllocAndInit(heap, b, hashObj)} :
             /\ allocFailed' = (allocFailed \/ r.b < 0)
             /\ heap' = r.h
             /\ hashArray' = r.arr
             /\ hashCount' = r.hashCount
             /\ result' = (r.arr # 0)
    /\ pc' = "hash_ret"
    /\ UNCHANGED <<initReturn, doc, updateManifestValue, files, fileCount, fileArr, index,
                   succeeded, tempUpdateID, updateId, idObj, hashObj, staleRead>>

\* The caller releases the array it was given (ADUC_Hash_FreeArray).
Caller_FreeHashArray ==
    /\ pc = "hash_ret"
    /\ result
    /\ heap' = ADUC_Hash_FreeArray(heap, hashCount, hashArray)
    /\ pc' = "end"
    /\ UNCHANGED <<initReturn, doc, updateManifestValue, files, fileCount, fileArr, index,
                   succeeded, tempUpdateID, updateId, idObj, hashObj, hashArray,
                   hashCount, result, staleRead,
                   allocFailed>>

\* --------------------------------------------------------- specifications
Start ==
    /\ heap = <<>>
    /\ pc = "idle"
    /\ updateManifestValue = 0
    /\ files = 0
    /\ fileCount = 0
    /\ fileArr = <<>>
    /\ index = 0
    /\ succeeded = FALSE
    /\ tempUpdateID = 0
    /\ updateId = 0
    /\ idObj = ZeroId
    /\ hashArray = 0
    /\ hashCount = 0
    /\ result = FALSE
    /\ staleRead = FALSE
    /\ allocFailed = FALSE
    /\ initReturn = NoInitReturn

\* A caller holds a parsed update action document and makes one call.
Init ==
    /\ doc \in Docs
    /\ hashObj = Absent
    /\ Start

Next ==
    \/ GetFiles_NullArgs
    \/ GetFiles_Enter
    \/ GetFiles_Iterate
    \/ GetFiles_Done
    \/ Caller_FreeFiles
    \/ GetUpdateId_Enter
    \/ GetUpdateId_Done
    \/ Caller_FreeUpdateId
    \/ GetUpdateManifestRoot_Call
    \/ Caller_FreeRoot

Spec == Init /\ [][Next]_vars

\* A caller holds a "hashes" object and calls ADUC_HashArray_AllocAndInit.
InitHash ==
    /\ doc = [updateManifest |-> Absent, fileUrls |-> Absent]
    /\ hashObj \in HashObjs
    /\ Start

NextHash ==
    \/ HashArray_Call
    \/ Caller_FreeHashArray

SpecHash == InitHash /\ [][NextHash]_vars

\* ================================================================= claims
\* What a document declares, read off the document alone.
ManifestParses(d) ==
    /\ d.updateManifest # Absent
    /\ d.updateManifest[1].t = "str"
    /\ d.updateManifest[1].wellFormed

DeclaredFiles(d) ==
    IF ManifestParses(d) /\ d.updateManifest[1].root.isObject
                         /\ d.updateManifest[1].root.files # Absent
    THEN d.updateManifest[1].root.files[1]
    ELSE <<>>

DeclaredUrls(d) == IF d.fileUrls = Absent THEN <<>> ELSE d.fileUrls[1]

IsText(v) == v.t = "str" /\ v.s # ""

\* A "hashes" object every entry of which names an algorithm and a value.
HashesParse(hashes) ==
    /\ hashes # Absent
    /\ Len(hashes[1]) >= 1
    /\ \A j \in 1..Len(hashes[1]) : hashes[1][j].name # "" /\ IsText(hashes[1][j].value)

\* A failure point of ADUC_Json_GetFiles the document itself holds.
GetFilesMustFail(d) ==
    \/ Len(DeclaredFiles(d)) = 0
    \/ Len(DeclaredUrls(d)) = 0
    \/ Len(DeclaredUrls(d)) < Len(DeclaredFiles(d))
    \/ \E i \in 1..Len(DeclaredFiles(d)) :
          \/ ~HashesParse(DeclaredFiles(d)[i].value.hashes)
          \/ DeclaredFiles(d)[i].value.fileName = Absent
          \/ DeclaredFiles(d)[i].value.fileName[1].t # "str"

\* The cells of the given kinds.
CellsOf(kinds) == {c \in 1..Len(heap) : heap[c].kind \in kinds}

\* C1: ADUC_Json_GetFiles is all-or-nothing for its caller.  When it has
\* returned, either the result is true, *files is an array and *fileCount is
\* the number of entries of "files", or the result is false, *files is NULL
\* and *fileCount is 0; a document holding a failure point, and a call in
\* which an allocation failed, return false.
C1_AllOrNothing ==
    pc = "gf_ret" =>
        /\ result => /\ files # 0
                     /\ fileCount = Len(DeclaredFiles(doc))
                     /\ Len(fileArr) = fileCount
                     /\ fileCount >= 1
        /\ ~result => files = 0 /\ fileCount = 0 /\ fileArr = <<>>
        /\ (GetFilesMustFail(doc) \/ allocFailed) => ~result

\* A call that failed at a file after the first, the array allocated.
C1_Witness ==
    /\ pc = "gf_ret"
    /\ ~result
    /\ index >= 1
    /\ CellsOf({"filearr"}) # {}
    /\ files = 0

\* C2: allocation accounting of a failed ADUC_Json_GetFiles.  During the
\* call nothing is released twice, and when the call has returned false every
\* string, every hash array and the file array it allocated (the entities
\* built before the failing index and the hash array of the entry under
\* construction among them) has been released exactly once.
C2_ReleasedExactlyOnce ==
    /\ pc \in {"gf_loop", "gf_done", "gf_ret"} =>
           \A c \in 1..Len(heap) : heap[c].frees <= 1
    /\ (pc = "gf_ret" /\ ~result) =>
           \A c \in CellsOf({"str", "hasharr", "filearr"}) : heap[c].frees = 1

\* ADUC_FileEntity_Init refused the file at an index after the first (it has
\* no fileName), its hash array built and entities before it built.
C2_Witness ==
    /\ pc = "gf_ret"
    /\ ~result
    /\ index >= 1
    /\ DeclaredFiles(doc)[index + 1].value.fileName = Absent
    /\ Cardinality(CellsOf({"hasharr"})) = index + 1
    /\ \A c \in CellsOf({"str", "hasharr", "filearr"}) : heap[c].frees = 1

\* The text of the string a pointer owns, NULL for a NULL pointer.
TextAt(p) == IF p = 0 THEN NULL ELSE heap[p].str

\* C3: for a document whose "files" object has N >= 1 entries the parser
\* accepts and whose "fileUrls" object has M >= N entries, a call in which
\* no allocation fails returns true with *fileCount = N, and entity i holds
\* the i-th key of "files" as FileId, that entry's fileName as
\* TargetFilename and the URL at position i of "fileUrls" as DownloadUri,
\* whatever the keys of "fileUrls" are and however many URLs follow.
C3_PositionalResult ==
    (pc = "gf_ret" /\ ~GetFilesMustFail(doc) /\ ~allocFailed) =>
        /\ result
        /\ fileCount = Len(DeclaredFiles(doc))
        /\ \A i \in 1..Len(DeclaredFiles(doc)) :
              /\ TextAt(fileArr[i].FileId) = CStr(DeclaredFiles(doc)[i].name)
              /\ TextAt(fileArr[i].TargetFilename)
                     = CStr(DeclaredFiles(doc)[i].value.fileName[1].s)
              /\ DeclaredUrls(doc)[i].value.t = "str" =>
                     TextAt(fileArr[i].DownloadUri) = CStr(DeclaredUrls(doc)[i].value.s)

\* Two files, three URLs, and the first URL is not keyed by the first file.
C3_Witness ==
    /\ pc = "gf_ret"
    /\ result
    /\ fileCount = 2
    /\ Len(DeclaredUrls(doc)) = 3
    /\ DeclaredUrls(doc)[1].name # DeclaredFiles(doc)[1].name
    /\ TextAt(fileArr[2].DownloadUri) = CStr(UrlAt(2))

\* "files" or "fileUrls" is absent or empty, or there are fewer URLs than
\* files.
CountsInvalid(d) ==
    \/ Len(DeclaredFiles(d)) = 0
    \/ Len(DeclaredUrls(d)) = 0
    \/ Len(DeclaredUrls(d)) < Len(DeclaredFiles(d))

\* C4: the counts are validated before anything is built.  When "files" or
\* "fileUrls" is absent or empty or there are fewer URLs than files, the call
\* never enters its loop, allocates no file array, no hash array and no
\* entity or hash string at any point, and returns false with no collection.
C4_ValidationFirst ==
    (pc \in {"gf_loop", "gf_done", "gf_ret"} /\ CountsInvalid(doc)) =>
        /\ pc # "gf_loop"
        /\ CellsOf({"filearr", "hasharr", "str"}) = {}
        /\ files = 0 /\ fileCount = 0 /\ fileArr = <<>>
        /\ pc = "gf_ret" => ~result

\* The manifest was acquired and declares two files, with one URL for them.
C4_Witness ==
    /\ pc = "gf_ret"
    /\ updateManifestValue # 0
    /\ Len(DeclaredFiles(doc)) = 2
    /\ Len(DeclaredUrls(doc)) = 1
    /\ ~result
    /\ CellsOf({"filearr", "hasharr", "str"}) = {}

\* The "updateId" object a document declares, Absent when it has none.
DeclaredId(d) ==
    IF ManifestParses(d) /\ d.updateManifest[1].root.isObject
    THEN d.updateManifest[1].root.updateId
    ELSE Absent

\* A member that is absent, is no string or is the empty string.
Missing(member) == member = Absent \/ ~IsText(member[1])

IdInvalid(d) ==
    \/ DeclaredId(d) = Absent
    \/ Missing(DeclaredId(d)[1].provider)
    \/ Missing(DeclaredId(d)[1].name)
    \/ Missing(DeclaredId(d)[1].version)

C6_NoPartialHashSet ==
    pc = "hash_ret" =>
        /\ hashArray # 0 =>
              /\ hashCount = json_object_get_count(hashObj)
              /\ hashCount >= 1
              /\ heap[hashArray].kind = "hasharr"
              /\ Len(heap[hashArray].elems) = hashCount
              /\ \A c \in 1..Len(heap) : heap[c].frees = 0
              /\ \A i \in 1..hashCount :
                    /\ TextAt(heap[hashArray].elems[i].type) = CStr(hashObj[1][i].name)
                    /\ TextAt(heap[hashArray].elems[i].value)
                           = CStr(hashObj[1][i].value.s)
        /\ hashArray = 0 =>
              /\ hashCount = 0
              /\ \A c \in 1..Len(heap) : heap[c].frees = 1
        /\ hashArray # 0 <=> (HashesParse(hashObj) /\ ~allocFailed)

\* The second of two entries was refused after the first had been built.
C6_Witness ==
    /\ pc = "hash_ret"
    /\ hashArray = 0
    /\ hashCount = 0
    /\ json_object_get_count(hashObj) = 2
    /\ IsText(hashObj[1][1].value) /\ hashObj[1][1].name # ""
    /\ ~IsText(hashObj[1][2].value)
    /\ ~allocFailed
    /\ Cardinality(CellsOf({"str"})) = 2
    /\ \A c \in 1..Len(heap) : heap[c].frees = 1

\* C7: every FileEntity a successful ADUC_Json_GetFiles returns has a FileId
\* and a TargetFilename that are present and not empty, and at least one
\* hash in a hash array.
C7_EntityInvariant ==
    (pc = "gf_ret" /\ result) =>
        \A i \in 1..fileCount :
            /\ NonEmpty(TextAt(fileArr[i].FileId))
            /\ NonEmpty(TextAt(fileArr[i].TargetFilename))
            /\ fileArr[i].HashCount >= 1
            /\ fileArr[i].Hash # 0

\* The document with every sizeInBytes member removed.
WithoutSizes(d) ==
    IF DeclaredFiles(d) = <<>> THEN d
    ELSE [d EXCEPT !.updateManifest[1].root.files[1] =
             [i \in 1..Len(DeclaredFiles(d)) |->
                 [DeclaredFiles(d)[i] EXCEPT !.value.sizeInBytes = Absent]]]

\* C8: a file object without sizeInBytes gives an entity with SizeInBytes = 0,
\* one whose sizeInBytes is the number s gives SizeInBytes = s, and whether
\* the call succeeds is what it is for the document without any sizeInBytes.
C8_SizeInBytes ==
    /\ (pc = "gf_ret" /\ result) =>
           \A i \in 1..fileCount :
               /\ DeclaredFiles(doc)[i].value.sizeInBytes = Absent =>
                      fileArr[i].SizeInBytes = 0
               /\ (/\ DeclaredFiles(doc)[i].value.sizeInBytes # Absent
                   /\ DeclaredFiles(doc)[i].value.sizeInBytes[1].t = "num") =>
                      fileArr[i].SizeInBytes
                          = DeclaredFiles(doc)[i].value.sizeInBytes[1].n
    /\ (pc = "gf_ret" /\ ~allocFailed) =>
           (result <=> ~GetFilesMustFail(WithoutSizes(doc)))

\* One file with a size of 1024 and one without a size, both built.
C8_Witness ==
    /\ pc = "gf_ret"
    /\ result
    /\ fileCount = 2
    /\ DeclaredFiles(doc)[1].value.sizeInBytes = Present(JNum(1024))
    /\ DeclaredFiles(doc)[2].value.sizeInBytes = Absent
    /\ fileArr[1].SizeInBytes = 1024
    /\ fileArr[2].SizeInBytes = 0

\* The cells a hash array owns: the array and its elements' strings.
HashArrayCells(arr) ==
    IF arr = 0 THEN {}
    ELSE {arr} \cup UNION {{heap[arr].elems[j].type, heap[arr].elems[j].value} :
                              j \in 1..Len(heap[arr].elems)}

\* The cells the value a call returned owns.
ReturnedCells ==
    IF ~result THEN {}
    ELSE IF pc = "gf_ret"
    THEN {files} \cup UNION {{fileArr[i].FileId, fileArr[i].TargetFilename,
                              fileArr[i].DownloadUri, fileArr[i].Arguments}
                             \cup HashArrayCells(fileArr[i].Hash) : i \in 1..Len(fileArr)}
    ELSE IF pc = "id_ret"
    THEN {updateId, idObj.Provider, idObj.Name, idObj.Version}
    ELSE IF pc = "root_ret" THEN {updateManifestValue}
    ELSE {}

\* C9: when ADUC_JSON_GetUpdateManifestRoot, ADUC_Json_GetUpdateId or
\* ADUC_Json_GetFiles has returned, every allocation made during the call,
\* the copy of the updateManifest string included, is owned by the value
\* returned (and live) or has been released exactly once.
C9_NoUnownedAllocation ==
    pc \in {"gf_ret", "id_ret", "root_ret"} =>
        \A c \in 1..Len(heap) :
            IF c \in ReturnedCells THEN heap[c].frees = 0 ELSE heap[c].frees = 1

\* The extent of the leak: apart from the copy of the updateManifest string,
\* which stays live and unowned, every allocation is owned or released once.
C9_OnlyTheManifestStringLeaks ==
    pc \in {"gf_ret", "id_ret", "root_ret"} =>
        \A c \in 1..Len(heap) :
            IF c \in ReturnedCells THEN heap[c].frees = 0
            ELSE IF heap[c].kind = "field" THEN heap[c].frees = 0
            ELSE heap[c].frees = 1

\* C10: the re-parsed manifest document of ADUC_Json_GetUpdateId and of
\* ADUC_Json_GetFiles is live until the done label, is never read after its
\* release, is never released twice, has been released exactly once when the
\* call has returned, whatever the exit path, and is not what the caller is
\* handed; the argument check of ADUC_Json_GetFiles returns before any
\* document is acquired.
C10_ManifestReleasedOnce ==
    /\ \A c \in CellsOf({"doc"}) : heap[c].frees <= 1
    /\ ~staleRead
    /\ pc \in {"gf_loop", "gf_done", "id_done"} =>
           \A c \in CellsOf({"doc"}) : c = updateManifestValue /\ heap[c].frees = 0
    /\ pc = "gf_loop" => updateManifestValue # 0
    /\ pc \in {"gf_ret", "id_ret"} =>
           /\ \A c \in CellsOf({"doc"}) : c = updateManifestValue /\ heap[c].frees = 1
           /\ updateManifestValue # 0 =>
                  /\ heap[updateManifestValue].kind = "doc"
                  /\ updateManifestValue \notin ReturnedCells
    /\ pc = "gf_badargs" => heap = <<>> /\ updateManifestValue = 0

\* A call that went to done from inside the loop, its document released.
C10_Witness ==
    /\ pc = "gf_ret"
    /\ ~result
    /\ index >= 1
    /\ updateManifestValue # 0
    /\ heap[updateManifestValue].kind = "doc"
    /\ heap[updateManifestValue].frees = 1

\* The cells a hash array owns in the heap `h`: the array and the strings of
\* its elements.
OwnedByHashArray(h, arr) ==
    IF arr = 0 THEN {}
    ELSE {arr} \cup (UNION {{h[arr].elems[j].type, h[arr].elems[j].value} :
                               j \in 1..Len(h[arr].elems)} \ {0})

\* The entities of the array at *files that hold the hash array `arr`.
HoldersOf(arr) == {i \in 1..Len(fileArr) : fileArr[i].Hash = arr}

\* C11: ownership of the hash array across ADUC_FileEntity_Init.  When the
\* builder returns false the hash array it was passed is not attached to the
\* entity and nothing of it has been released by the builder, and the
\* caller's ADUC_Hash_FreeArray with the final ADUC_FileEntityArray_Free
\* releases it exactly once.  When the builder returns true the entity holds
\* the hash array and the caller does not release it.  Whatever the files
\* before did, no hash array is released twice, a failed call leaves none
\* unreleased, and a live hash array is held by exactly one entity.
C11_HashArrayOwnership ==
    /\ (initReturn.called /\ ~initReturn.ok) =>
           /\ initReturn.entity.Hash = 0
           /\ initReturn.entity.HashCount = 0
           /\ \A c \in OwnedByHashArray(initReturn.h, initReturn.tempHash) :
                  initReturn.h[c].frees = 0
           /\ pc \in {"gf_done", "gf_ret"}
           /\ \A c \in OwnedByHashArray(heap, initReturn.tempHash) :
                  heap[c].frees = 1
           /\ HoldersOf(initReturn.tempHash) = {}
    /\ (initReturn.called /\ initReturn.ok) =>
           /\ initReturn.entity.Hash = initReturn.tempHash
           /\ initReturn.entity.HashCount = initReturn.tempHashCount
           /\ \A c \in OwnedByHashArray(initReturn.h, initReturn.tempHash) :
                  initReturn.h[c].frees = 0
           /\ (pc \in {"gf_loop", "gf_done"} \/ (pc = "gf_ret" /\ result)) =>
                  /\ Cardinality(HoldersOf(initReturn.tempHash)) = 1
                  /\ \A c \in OwnedByHashArray(heap, initReturn.tempHash) :
                         heap[c].frees = 0
    /\ \A arr \in CellsOf({"hasharr"}) :
           /\ \A c \in OwnedByHashArray(heap, arr) : heap[c].frees <= 1
           /\ pc \in {"gf_loop", "gf_done"} =>
                  Cardinality(HoldersOf(arr)) = IF heap[arr].frees = 0 THEN 1 ELSE 0
           /\ (pc = "gf_ret" /\ ~result) =>
                  \A c \in OwnedByHashArray(heap, arr) : heap[c].frees = 1
           /\ (pc = "gf_ret" /\ result) =>
                  /\ Cardinality(HoldersOf(arr)) = 1
                  /\ \A c \in OwnedByHashArray(heap, arr) : heap[c].frees = 0
           /\ pc = "end" =>
                  \A c \in OwnedByHashArray(heap, arr) : heap[c].frees = 1

\* The builder took the first file and failed on a copy for the second, one
\* string of the entity already copied; the call has returned.
C11_Witness ==
    /\ pc = "gf_ret"
    /\ ~result
    /\ index = 1
    /\ initReturn.called
    /\ ~initReturn.ok
    /\ allocFailed
    /\ Cardinality(CellsOf({"hasharr"})) = 2
    /\ initReturn.tempHash \in CellsOf({"hasharr"})
    /\ \E c \in CellsOf({"str"}) :
           \A o \in OwnedByHashArray(heap, initReturn.tempHash) : c > o
    /\ \A arr \in CellsOf({"hasharr"}) :
           \A c \in OwnedByHashArray(heap, arr) : heap[c].frees = 1

====
